---- MODULE Spec2Model ----
(***************************************************************************)
(* A model of funzo (src/funzo.ts): a FunzoData wrapper over a shared,     *)
(* mutable backing array, the lazily filtered FunzoList views made from it *)
(* by map(), the SkippingIterator they iterate with, the DataModifier that *)
(* swaps logical positions in place, and the quickselect median built on   *)
(* it.  Every method is one action; its result is recorded in `ret`.       *)
(***************************************************************************)
EXTENDS Integers, Sequences, FiniteSets, Bags, TLC

\* Bounds of the model.
MaxLen == 3         \* longest backing array
MaxVal == 2         \* items are the numbers 0..MaxVal
MaxFilters == 2     \* longest chain of filter() calls

Values == 0..MaxVal
\* Index and size arguments: one below the array, every position of the
\* longest array, and one past it.
IdxInputs == -1..MaxLen
NegKeys == {i \in IdxInputs : i < 0}

\* JavaScript values, all records of one shape: the number n/d (in lowest
\* terms, d > 0), undefined, null, NaN, +Infinity / -Infinity (n is the sign),
\* a string that is not the text of a number (such as 'a'; so is every string
\* made by appending to it), and the irrational results of Math.sqrt:
\* "sqrt" is the square root of n/d and "-sqrt" its negation.
RECURSIVE GCD(_, _)
GCD(a, b) == IF b = 0 THEN a ELSE GCD(b, a % b)
Abs(x) == IF x < 0 THEN 0 - x ELSE x
Rat(n, d) ==
    LET g == GCD(Abs(n), Abs(d))
        sg == IF d < 0 THEN 0 - 1 ELSE 1
    IN  [k |-> "number", n |-> (sg * n) \div g, d |-> (sg * d) \div g]
Num(x) == [k |-> "number", n |-> x, d |-> 1]
Undefined == [k |-> "undefined", n |-> 0, d |-> 1]
NaN == [k |-> "NaN", n |-> 0, d |-> 1]
JsNull == [k |-> "null", n |-> 0, d |-> 1]
Str == [k |-> "string", n |-> 0, d |-> 1]
Infinity(sign) == [k |-> "Infinity", n |-> sign, d |-> 1]
IsNum(v) == v.k = "number"

\* typeof x === 'number': NaN and the infinities are of type number too.
TypeofNumber(v) == v.k \in {"number", "NaN", "Infinity", "sqrt", "-sqrt"}

\* The conversion to a number made by the arithmetic and relational operators:
\* null is 0, undefined and every string that is not a number's text are NaN.
ToNumber(v) ==
    CASE v.k = "null" -> Num(0)
      [] v.k \in {"undefined", "string"} -> NaN
      [] OTHER -> v

\* a < b in JavaScript (never both strings here): false as soon as one side
\* converts to NaN.
Less(a, b) ==
    LET x == ToNumber(a)
        y == ToNumber(b)
    IN  IsNum(x) /\ IsNum(y) /\ x.n * y.d < y.n * x.d

\* a + b: concatenation as soon as one side is a string, else addition.
Add(a, b) ==
    IF a.k = "string" \/ b.k = "string" THEN Str
    ELSE LET x == ToNumber(a)
             y == ToNumber(b)
         IN  IF IsNum(x) /\ IsNum(y) THEN Rat(x.n * y.d + y.n * x.d, x.d * y.d)
             ELSE NaN

\* a - b
Sub(a, b) ==
    LET x == ToNumber(a)
        y == ToNumber(b)
    IN  IF IsNum(x) /\ IsNum(y) THEN Rat(x.n * y.d - y.n * x.d, x.d * y.d) ELSE NaN

\* a * b
Mul(a, b) ==
    LET x == ToNumber(a)
        y == ToNumber(b)
    IN  IF IsNum(x) /\ IsNum(y) THEN Rat(x.n * y.n, x.d * y.d) ELSE NaN

\* -a
Neg(a) ==
    LET x == ToNumber(a)
    IN  CASE x.k = "number" -> [x EXCEPT !.n = 0 - x.n]
          [] x.k = "sqrt" -> [x EXCEPT !.k = "-sqrt"]
          [] x.k = "-sqrt" -> [x EXCEPT !.k = "sqrt"]
          [] x.k = "Infinity" -> Infinity(0 - x.n)
          [] OTHER -> NaN

\* Math.sqrt(a) of a rational: rational when numerator and denominator are
\* squares, NaN below zero.
IsSquare(x) == \E r \in 0..x : r * r = x
Root(x) == CHOOSE r \in 0..x : r * r = x
Sqrt(a) ==
    LET x == ToNumber(a)
    IN  IF x.k = "Infinity" /\ x.n > 0 THEN x
        ELSE IF ~IsNum(x) \/ x.n < 0 THEN NaN
        ELSE IF IsSquare(x.n) /\ IsSquare(x.d) THEN Rat(Root(x.n), Root(x.d))
        ELSE [k |-> "sqrt", n |-> x.n, d |-> x.d]

\* a / b for a rational a and b rational or a square root: 0 / 0 is NaN,
\* x / 0 an infinity, and x / sqrt(q) is sign(x) * sqrt(x * x / q).
Div(a, b) ==
    LET x == ToNumber(a)
        y == ToNumber(b)
    IN  IF ~IsNum(x) \/ y.k \notin {"number", "sqrt"} THEN NaN
        ELSE IF y.n = 0 THEN (IF x.n = 0 THEN NaN
                              ELSE Infinity(IF x.n < 0 THEN 0 - 1 ELSE 1))
        ELSE IF y.k = "number" THEN Rat(x.n * y.d, x.d * y.n)
        ELSE IF x.n < 0 THEN Neg(Sqrt(Rat(x.n * x.n * y.d, x.d * x.d * y.n)))
        ELSE Sqrt(Rat(x.n * x.n * y.d, x.d * x.d * y.n))

\* (a + b) / 2
Half(a, b) == Div(Add(a, b), Num(2))

\* The functions callers hand to filter(): x => true, x => x % 2 === 0 and
\* x => x > c (with c = 0).  A caller's function is a set of such tests, all of
\* which it requires (one function written as t1(x) && t2(x)).
Tests == {"all", "even", "gt"}
Test(t, v) ==
    CASE t = "all" -> TRUE
      [] t = "even" -> IsNum(ToNumber(v)) /\ ToNumber(v).d = 1 /\ ToNumber(v).n % 2 = 0
      [] OTHER -> IsNum(ToNumber(v)) /\ ToNumber(v).n > 0
CallFilter(p, v) == \A t \in p : Test(t, v)
FilterInputs == {{t} : t \in Tests}

\* convert(v) of numerize(fallbackValue): a number as it is (NaN too), a
\* string by parseFloat when that gives a number ('a' does not), anything
\* else the fallback.
Convert(v, fallbackValue) == IF TypeofNumber(v) THEN v ELSE fallbackValue

\* The functions callers hand to map(): the default x => x, and v => -v;
\* "numerize" is the accessor numerize() builds with its default fallback 0.
Accessors == {"id", "neg"}
Access(fn, v) ==
    IF fn = "id" THEN v ELSE IF fn = "neg" THEN Neg(v) ELSE Convert(v, Num(0))

\* filterFn of a FunzoData / FunzoList / DataModifier: null, or the functions
\* given to filter() in call order (the nested closure built by filter()).
Null == << >>

Front(s) == SubSeq(s, 1, Len(s) - 1)
Last(s) == s[Len(s)]

\* (mutation: the new closure forgets this.filterFn and calls fn alone)
ApplyFilterLastOnly(filterFn, v) == CallFilter(Last(filterFn), v)

\* The closure built by filter(): (v) => this.filterFn(v) && fn(v).
RECURSIVE ApplyFilter(_, _)
ApplyFilter(filterFn, v) ==
    IF Len(filterFn) = 1 THEN CallFilter(filterFn[1], v)
    ELSE ApplyFilter(Front(filterFn), v) /\ CallFilter(Last(filterFn), v)

\* The callers' functions that one call of the closure invokes, in order.
RECURSIVE FilterTrace(_, _)
FilterTrace(filterFn, v) ==
    IF Len(filterFn) = 1 THEN << filterFn[1] >>
    ELSE IF ApplyFilter(Front(filterFn), v)
         THEN Append(FilterTrace(Front(filterFn), v), Last(filterFn))
         ELSE FilterTrace(Front(filterFn), v)

\* FunzoData.filter(fn): the filter of the new FunzoData.
ComposeFilter(filterFn, fn) ==
    IF filterFn # Null THEN Append(filterFn, fn) ELSE << fn >>

\* this.data[i] of a JavaScript array: an element, a property stored under a
\* negative key (kept in neg), or undefined.
Elt(data, neg, i) ==
    IF 0 <= i /\ i < Len(data) THEN data[i + 1]
    ELSE IF i \in DOMAIN neg THEN neg[i]
    ELSE Undefined

\* this.data[i] = v for i < this.data.length.
SetData(data, i, v) == IF 0 <= i /\ i < Len(data) THEN [data EXCEPT ![i + 1] = v] ELSE data
SetNeg(neg, i, v) == IF i \in DOMAIN neg THEN [neg EXCEPT ![i] = v] ELSE neg

\* SkippingIterator.findNextMatch: the match (undefined when there is none)
\* and the position the scan stopped at.
RECURSIVE FindNextMatch(_, _, _)
FindNextMatch(data, filterFn, i) ==
    IF i < Len(data)
    THEN IF filterFn = Null \/ ApplyFilter(filterFn, data[i + 1])
         THEN [ans |-> data[i + 1], i |-> i]
         ELSE FindNextMatch(data, filterFn, i + 1)
    ELSE [ans |-> Undefined, i |-> i]

\* SkippingIterator.hasNext() with the cursor at internalIdx.
HasNext(data, filterFn, internalIdx) ==
    FindNextMatch(data, filterFn, internalIdx + 1).ans # Undefined

\* SkippingIterator.next(): the element returned and the new internalIdx.
IterNext(data, filterFn, internalIdx) ==
    FindNextMatch(data, filterFn, internalIdx + 1)

\* FunzoList.size(): the loop while (iter.hasNext()) { iter.next(); i += 1 }.
RECURSIVE SizeLoop(_, _, _, _)
SizeLoop(data, filterFn, internalIdx, i) ==
    IF HasNext(data, filterFn, internalIdx)
    THEN SizeLoop(data, filterFn, IterNext(data, filterFn, internalIdx).i, i + 1)
    ELSE i

Size(filterFn, data) ==
    IF filterFn = Null THEN Len(data) ELSE SizeLoop(data, filterFn, -1, 0)

\* FunzoList.get(idx) under a filter: the scan over i2 counting matches in i.
RECURSIVE GetLoop(_, _, _, _, _, _)
GetLoop(fn, filterFn, data, idx, i2, i) ==
    IF i2 < Len(data)
    THEN IF ApplyFilter(filterFn, data[i2 + 1])
         THEN IF i = idx THEN Access(fn, data[i2 + 1])
              ELSE GetLoop(fn, filterFn, data, idx, i2 + 1, i + 1)
         ELSE GetLoop(fn, filterFn, data, idx, i2 + 1, i)
    ELSE Undefined

\* (mutation: get() indexes the backing array even under a filter)
GetPhysical(fn, filterFn, data, neg, idx) == Access(fn, Elt(data, neg, idx))

\* FunzoList.get(idx).
Get(fn, filterFn, data, neg, idx) ==
    IF filterFn = Null THEN Access(fn, Elt(data, neg, idx))
    ELSE GetLoop(fn, filterFn, data, idx, 0, 0)

\* FunzoList.toArray(): data.filter(filterFunc or x => true).map(accessorFunc).
RECURSIVE ToArrayLoop(_, _, _, _)
ToArrayLoop(fn, filterFn, data, i) ==
    IF i > Len(data) THEN << >>
    ELSE IF filterFn = Null \/ ApplyFilter(filterFn, data[i])
         THEN << Access(fn, data[i]) >> \o ToArrayLoop(fn, filterFn, data, i + 1)
         ELSE ToArrayLoop(fn, filterFn, data, i + 1)
ToArray(fn, filterFn, data) == ToArrayLoop(fn, filterFn, data, 1)


\* FunzoList.each(fn): one record per call of fn, with the item the accessor
\* was invoked on.  The callback of the callers returns false once i >= stopAt.
RECURSIVE EachLoop(_, _, _, _, _, _)
EachLoop(fn, filterFn, data, internalIdx, i, stopAt) ==
    IF HasNext(data, filterFn, internalIdx)
    THEN LET nx == IterNext(data, filterFn, internalIdx)
             call == [v |-> Access(fn, nx.ans), i |-> i, item |-> nx.ans]
         IN  IF i >= stopAt THEN << call >>
             ELSE << call >> \o EachLoop(fn, filterFn, data, nx.i, i + 1, stopAt)
    ELSE << >>

\* (mutation: the return value of the callback is ignored)
EachNoBreak(fn, filterFn, data, stopAt) == EachLoop(fn, filterFn, data, -1, 0, Len(data))

Each(fn, filterFn, data, stopAt) == EachLoop(fn, filterFn, data, -1, 0, stopAt)

\* FunzoList.walkThrough under the callback of sum(): total is the running
\* total and the number of calls of the callback so far; nx is iter.next().
RECURSIVE SumLoop(_, _, _, _, _)
SumStep(fn, filterFn, data, nx, total) ==
    IF ~TypeofNumber(Access(fn, nx.ans))
    THEN [val |-> NaN, calls |-> total.calls + 1]
    ELSE SumLoop(fn, filterFn, data, nx.i,
                 [val |-> Add(total.val, Access(fn, nx.ans)), calls |-> total.calls + 1])

SumLoop(fn, filterFn, data, internalIdx, total) ==
    IF HasNext(data, filterFn, internalIdx)
    THEN SumStep(fn, filterFn, data, IterNext(data, filterFn, internalIdx), total)
    ELSE total

\* FunzoList.sum(): the value returned and the calls of the callback made.
Sum(fn, filterFn, data) ==
    SumLoop(fn, filterFn, data, -1, [val |-> Num(0), calls |-> 0])

\* walkThrough under the callback of max() (isMax) or min(): best is maxVal /
\* minVal.
RECURSIVE ExtremeLoop(_, _, _, _, _, _)
ExtremeStep(isMax, fn, filterFn, data, nx, best) ==
    IF ~TypeofNumber(Access(fn, nx.ans)) THEN NaN
    ELSE IF (IF isMax THEN Less(best, Access(fn, nx.ans))
                      ELSE Less(Access(fn, nx.ans), best))
    THEN ExtremeLoop(isMax, fn, filterFn, data, nx.i, Access(fn, nx.ans))
    ELSE ExtremeLoop(isMax, fn, filterFn, data, nx.i, best)

ExtremeLoop(isMax, fn, filterFn, data, internalIdx, best) ==
    IF HasNext(data, filterFn, internalIdx)
    THEN ExtremeStep(isMax, fn, filterFn, data, IterNext(data, filterFn, internalIdx), best)
    ELSE best

\* FunzoList.max(): let maxVal = this.get(0), then the walk.
Max(fn, filterFn, data, neg) ==
    ExtremeLoop(TRUE, fn, filterFn, data, -1, Get(fn, filterFn, data, neg, 0))

\* FunzoList.min(): let minVal = this.get(0), then the walk.
Min(fn, filterFn, data, neg) ==
    ExtremeLoop(FALSE, fn, filterFn, data, -1, Get(fn, filterFn, data, neg, 0))

\* walkThrough under the callback of meanAndSize(): num += 1; total += v.
RECURSIVE MeanLoop(_, _, _, _, _)
MeanStep(fn, filterFn, data, nx, acc) ==
    MeanLoop(fn, filterFn, data, nx.i,
             [total |-> Add(acc.total, Access(fn, nx.ans)), num |-> acc.num + 1])

MeanLoop(fn, filterFn, data, internalIdx, acc) ==
    IF HasNext(data, filterFn, internalIdx)
    THEN MeanStep(fn, filterFn, data, IterNext(data, filterFn, internalIdx), acc)
    ELSE acc

\* The end of meanAndSize(): {mean: total / num, size: num} or {mean: NaN}.
MeanOf(acc) ==
    IF acc.num > 0 THEN [mean |-> Div(acc.total, Num(acc.num)), size |-> acc.num]
    ELSE [mean |-> NaN, size |-> acc.num]

\* FunzoList.meanAndSize()
MeanAndSize(fn, filterFn, data) ==
    MeanOf(MeanLoop(fn, filterFn, data, -1, [total |-> Num(0), num |-> 0]))

\* FunzoList.mean()
Mean(fn, filterFn, data) == MeanAndSize(fn, filterFn, data).mean

\* walkThrough under the callback of stdev(): curr += (v - mean) * (v - mean).
RECURSIVE StdevLoop(_, _, _, _, _, _)
StdevStep(fn, filterFn, data, nx, mean, curr) ==
    StdevLoop(fn, filterFn, data, nx.i, mean,
              Add(curr, Mul(Sub(Access(fn, nx.ans), mean), Sub(Access(fn, nx.ans), mean))))

StdevLoop(fn, filterFn, data, internalIdx, mean, curr) ==
    IF HasNext(data, filterFn, internalIdx)
    THEN StdevStep(fn, filterFn, data, IterNext(data, filterFn, internalIdx), mean, curr)
    ELSE curr

\* stdev() once meanAndSize() has returned ms.
StdevOf(fn, filterFn, data, ms) ==
    IF ms.mean.k # "NaN" /\ Size(filterFn, data) > 1
    THEN Sqrt(Div(StdevLoop(fn, filterFn, data, -1, ms.mean, Num(0)), Num(ms.size - 1)))
    ELSE NaN

\* FunzoList.stdev()
Stdev(fn, filterFn, data) == StdevOf(fn, filterFn, data, MeanAndSize(fn, filterFn, data))

\* ans += tmp * Math.log(tmp) of entropy().  ans stands for the sum of
\* x * ln(x) over the x in ans.terms (each 0 < x < 1), or is NaN: Math.log(0)
\* is -Infinity and 0 * -Infinity is NaN, 1 * Math.log(1) is 0, and a value
\* that converts to NaN gives NaN.
AddXLogX(ans, tmp) ==
    IF ans.k = "NaN" \/ ~IsNum(ToNumber(tmp)) \/ ToNumber(tmp).n = 0
    THEN [k |-> "NaN", terms |-> << >>]
    ELSE IF ToNumber(tmp) = Num(1) THEN ans
    ELSE [ans EXCEPT !.terms = Append(ans.terms, ToNumber(tmp))]

\* The for loop of entropy(): for (let i = 0; i < this.size(); i += 1).
RECURSIVE EntropyLoop(_, _, _, _, _, _)
EntropyStep(fn, filterFn, data, neg, i, ans, tmp) ==
    IF Less(tmp, Num(0)) \/ Less(Num(1), tmp)
    THEN [k |-> "NaN", terms |-> << >>]
    ELSE EntropyLoop(fn, filterFn, data, neg, i + 1, AddXLogX(ans, tmp))

EntropyLoop(fn, filterFn, data, neg, i, ans) ==
    IF i < Size(filterFn, data)
    THEN EntropyStep(fn, filterFn, data, neg, i, ans, Get(fn, filterFn, data, neg, i))
    ELSE ans

\* return -ans / Math.log(base), for a base > 1: NaN, or the number
\* -(sum of x * ln(x) over terms) / ln(base).
EntropyOf(ans, base) ==
    IF ans.k = "NaN" THEN [k |-> "NaN", terms |-> << >>, base |-> base]
    ELSE [k |-> "number", terms |-> ans.terms, base |-> base]

\* FunzoList.entropy(base)
Entropy(fn, filterFn, data, neg, base) ==
    EntropyOf(EntropyLoop(fn, filterFn, data, neg, 0, [k |-> "number", terms |-> << >>]),
              base)

\* The first loop of correl(): the sums m1, m2 of the pairs both iterators
\* have, and their number.
RECURSIVE CorrelSums(_, _, _, _, _, _, _)
CorrelSumsStep(fn, filterFn, data, other, nx1, nx2, acc) ==
    CorrelSums(fn, filterFn, data, other, nx1.i, nx2.i,
               [m1 |-> Add(acc.m1, Access(fn, nx1.ans)),
                m2 |-> Add(acc.m2, Access(other.fn, nx2.ans)),
                numItems |-> acc.numItems + 1])

CorrelSums(fn, filterFn, data, other, idx1, idx2, acc) ==
    IF HasNext(data, filterFn, idx1) /\ HasNext(other.data, other.filterFn, idx2)
    THEN CorrelSumsStep(fn, filterFn, data, other, IterNext(data, filterFn, idx1),
                        IterNext(other.data, other.filterFn, idx2), acc)
    ELSE acc

\* The second loop of correl(), with the means m.m1 and m.m2.
RECURSIVE CorrelProducts(_, _, _, _, _, _, _, _)
CorrelProductsStep(fn, filterFn, data, other, nx1, nx2, m, acc) ==
    CorrelProducts(fn, filterFn, data, other, nx1.i, nx2.i, m,
        [numerator |-> Add(acc.numerator, Mul(Sub(Access(fn, nx1.ans), m.m1),
                                              Sub(Access(other.fn, nx2.ans), m.m2))),
         denominator1 |-> Add(acc.denominator1, Mul(Sub(Access(fn, nx1.ans), m.m1),
                                                    Sub(Access(fn, nx1.ans), m.m1))),
         denominator2 |-> Add(acc.denominator2, Mul(Sub(Access(other.fn, nx2.ans), m.m2),
                                                    Sub(Access(other.fn, nx2.ans), m.m2)))])

CorrelProducts(fn, filterFn, data, other, idx1, idx2, m, acc) ==
    IF HasNext(data, filterFn, idx1) /\ HasNext(other.data, other.filterFn, idx2)
    THEN CorrelProductsStep(fn, filterFn, data, other, IterNext(data, filterFn, idx1),
                            IterNext(other.data, other.filterFn, idx2), m, acc)
    ELSE acc

\* m1 /= numItems; m2 /= numItems
CorrelMeans(sums) ==
    [m1 |-> Div(sums.m1, Num(sums.numItems)), m2 |-> Div(sums.m2, Num(sums.numItems)),
     numItems |-> sums.numItems]

\* return numerator / Math.sqrt(denominator1 * denominator2)
CorrelOf(acc, numItems) ==
    [val |-> Div(acc.numerator, Sqrt(Mul(acc.denominator1, acc.denominator2))),
     threw |-> "no", pairs |-> numItems]

\* correl() from `let iter1 = this.createIterator()` on, after the first loop.
CorrelRest(fn, filterFn, data, other, m) ==
    CorrelOf(CorrelProducts(fn, filterFn, data, other, -1, -1, m,
                 [numerator |-> Num(0), denominator1 |-> Num(0), denominator2 |-> Num(0)]),
             m.numItems)

\* otherData.size(): a FunzoData (an unprojected wrapper) has no method size,
\* so the call throws a TypeError.
OtherSize(other) ==
    IF other.kind = "FunzoList"
    THEN [val |-> Size(other.filterFn, other.data), threw |-> "no"]
    ELSE [val |-> 0, threw |-> "TypeError"]

\* (mutation: views of different logical sizes give NaN, as in the variant of
\* correl without iterators)
CorrelEqualSizesOnly(fn, filterFn, data, other) ==
    IF OtherSize(other).threw # "no"
    THEN [val |-> Undefined, threw |-> OtherSize(other).threw, pairs |-> 0]
    ELSE IF other.kind = "FunzoData"
    THEN [val |-> Undefined, threw |-> "Please apply map() to the argument", pairs |-> 0]
    ELSE IF Size(filterFn, data) # OtherSize(other).val
    THEN [val |-> NaN, threw |-> "no", pairs |-> 0]
    ELSE CorrelRest(fn, filterFn, data, other,
             CorrelMeans(CorrelSums(fn, filterFn, data, other, -1, -1,
                                    [m1 |-> Num(0), m2 |-> Num(0), numItems |-> 0])))

\* FunzoList.correl(otherData).  other is a view (kind "FunzoList": its data,
\* filterFn and accessor fn) or an unprojected wrapper (kind "FunzoData").
\* The first statement, Math.min(this.size(), otherData.size()), runs before
\* the instanceof check.
Correl(fn, filterFn, data, other) ==
    IF OtherSize(other).threw # "no"
    THEN [val |-> Undefined, threw |-> OtherSize(other).threw, pairs |-> 0]
    ELSE IF other.kind = "FunzoData"
    THEN [val |-> Undefined, threw |-> "Please apply map() to the argument", pairs |-> 0]
    ELSE CorrelRest(fn, filterFn, data, other,
             CorrelMeans(CorrelSums(fn, filterFn, data, other, -1, -1,
                                    [m1 |-> Num(0), m2 |-> Num(0), numItems |-> 0])))

\* String(v) as the sequence of its characters.
Digit(x) == CASE x = 0 -> "0" [] x = 1 -> "1" [] x = 2 -> "2" [] x = 3 -> "3"
              [] x = 4 -> "4" [] x = 5 -> "5" [] x = 6 -> "6" [] x = 7 -> "7"
              [] x = 8 -> "8" [] x = 9 -> "9"
RECURSIVE NatChars(_)
NatChars(x) == IF x < 10 THEN << Digit(x) >> ELSE Append(NatChars(x \div 10), Digit(x % 10))
JsString(v) ==
    CASE v.k = "number" /\ v.d = 1 ->
             (IF v.n < 0 THEN << "-" >> ELSE << >>) \o NatChars(Abs(v.n))
      [] v.k = "number" /\ v.d = 2 ->
             (IF v.n < 0 THEN << "-" >> ELSE << >>) \o NatChars(Abs(v.n) \div 2) \o << ".", "5" >>
      [] v.k = "undefined" -> << "u", "n", "d", "e", "f", "i", "n", "e", "d" >>
      [] v.k = "null" -> << "n", "u", "l", "l" >>
      [] v.k = "NaN" -> << "N", "a", "N" >>
      [] v.k = "string" -> << "a" >>

\* str.split(sep) for a one-character separator.
RECURSIVE SplitFrom(_, _, _, _)
SplitFrom(str, sep, i, cur) ==
    IF i > Len(str) THEN << cur >>
    ELSE IF str[i] = sep THEN << cur >> \o SplitFrom(str, sep, i + 1, << >>)
    ELSE SplitFrom(str, sep, i + 1, Append(cur, str[i]))
Split(str, sep) == SplitFrom(str, sep, 1, << >>)

\* probs[key] = probs[key] !== undefined ? probs[key] + 1 : 1, on an object
\* kept as the sequence of its [key, count] entries in insertion order.
RECURSIVE Count(_, _, _)
Count(probs, key, i) ==
    IF i > Len(probs) THEN Undefined
    ELSE IF probs[i].key = key THEN Num(probs[i].count)
    ELSE Count(probs, key, i + 1)
Increment(probs, key) ==
    IF Count(probs, key, 1) # Undefined
    THEN [i \in 1..Len(probs) |->
              IF probs[i].key = key THEN [probs[i] EXCEPT !.count = @ + 1] ELSE probs[i]]
    ELSE Append(probs, [key |-> key, count |-> 1])

\* The while loop of mi(): the three tables and total.
RECURSIVE MiCounts(_, _, _, _, _)
MiCountsStep(list1, list2, nx1, nx2, acc) ==
    MiCounts(list1, list2, nx1.i, nx2.i,
        [probs12 |-> Increment(acc.probs12,
                               JsString(Access(list1.fn, nx1.ans)) \o << ":" >>
                                   \o JsString(Access(list2.fn, nx2.ans))),
         probs1 |-> Increment(acc.probs1, JsString(Access(list1.fn, nx1.ans))),
         probs2 |-> Increment(acc.probs2, JsString(Access(list2.fn, nx2.ans))),
         total |-> acc.total + 1])

MiCounts(list1, list2, idx1, idx2, acc) ==
    IF HasNext(list1.data, list1.filterFn, idx1) /\ HasNext(list2.data, list2.filterFn, idx2)
    THEN MiCountsStep(list1, list2, IterNext(list1.data, list1.filterFn, idx1),
                      IterNext(list2.data, list2.filterFn, idx2), acc)
    ELSE acc

\* probs12[pairs[i]] / pairs.length
MiWeight(c, pair) == Div(Num(pair.count), Num(Len(c.probs12)))

\* The term of mi() for one key of probs12: the weight w and the argument x of
\* the logarithm, for w * Math.log(x).
MiTerm(c, pair, vals) ==
    [w |-> MiWeight(c, pair),
     x |-> Div(MiWeight(c, pair),
               Mul(Div(Count(c.probs1, vals[1], 1), Num(c.total)),
                   Div(Count(c.probs2, vals[2], 1), Num(c.total))))]

\* The for loop of mi() over Object.keys(probs12), and ans / Math.log(base):
\* the sum of w * ln(x) over terms, divided by ln(base).
MiOf(c, base) ==
    [terms |-> [i \in 1..Len(c.probs12) |->
                    MiTerm(c, c.probs12[i], Split(c.probs12[i].key, ":"))],
     total |-> c.total, base |-> base, threw |-> "no"]

\* FunzoJointData.mi(base) of the joint data of list1 and list2:
\* list2.createIterator() is not a function of a FunzoData.
Mi(list1, list2, base) ==
    IF list2.kind = "FunzoData"
    THEN [terms |-> << >>, total |-> 0, base |-> base, threw |-> "TypeError"]
    ELSE MiOf(MiCounts(list1, list2, -1, -1,
                       [probs12 |-> << >>, probs1 |-> << >>, probs2 |-> << >>, total |-> 0]),
              base)

\* FunzoList.joint(otherData): new FunzoJointData(this, otherData); no check
\* of the argument is made.
Joint(list1, list2) == [list1 |-> list1, list2 |-> list2, threw |-> "no"]

\* null of `let r1 = null, r2 = null` (physical indices are >= 0).
NullIdx == -1

\* [this.data[a], this.data[b]] = [this.data[b], this.data[a]]
Exchange(s, a, b) ==
    LET va == Elt(s.data, s.neg, a)
        vb == Elt(s.data, s.neg, b)
        d1 == SetData(s.data, a, vb)
        n1 == SetNeg(s.neg, a, vb)
    IN  [s EXCEPT !.data = SetData(d1, b, va), !.neg = SetNeg(n1, b, va), !.threw = FALSE]

\* (mutation: the exchange under a filter writes one slot only)
RECURSIVE SwapScanOverwrite(_, _, _, _, _, _, _, _)
SwapScanOverwrite(filterFn, s, i1, i2, i, tmp, r1, r2) ==
    IF i < Len(s.data)
    THEN IF ApplyFilter(filterFn, s.data[i + 1])
         THEN LET n1 == IF tmp = i1 THEN i ELSE r1
                  n2 == IF tmp = i2 THEN i ELSE r2
              IN  IF n1 # NullIdx /\ n2 # NullIdx
                  THEN [s EXCEPT !.data = SetData(s.data, n1, s.data[n2 + 1])]
                  ELSE SwapScanOverwrite(filterFn, s, i1, i2, i + 1, tmp + 1, n1, n2)
         ELSE SwapScanOverwrite(filterFn, s, i1, i2, i + 1, tmp, r1, r2)
    ELSE [s EXCEPT !.threw = TRUE]

\* DataModifier.swap under a filter: the scan for r1 and r2 from position i,
\* with tmp the number of matches seen, and the check after the loop.
RECURSIVE SwapScan(_, _, _, _, _, _, _, _)
SwapScan(filterFn, s, i1, i2, i, tmp, r1, r2) ==
    IF i < Len(s.data)
    THEN IF ApplyFilter(filterFn, s.data[i + 1])
         THEN LET n1 == IF tmp = i1 THEN i ELSE r1
                  n2 == IF tmp = i2 THEN i ELSE r2
              IN  IF n1 # NullIdx /\ n2 # NullIdx
                  THEN Exchange(s, n1, n2)
                  ELSE SwapScan(filterFn, s, i1, i2, i + 1, tmp + 1, n1, n2)
         ELSE SwapScan(filterFn, s, i1, i2, i + 1, tmp, r1, r2)
    ELSE [s EXCEPT !.threw = TRUE]

\* (mutation: the indices are taken as physical ones even under a filter)
SwapIgnoreFilter(filterFn, s, i1, i2) ==
    IF i1 = i2 THEN s
    ELSE IF i1 < Len(s.data) /\ i2 < Len(s.data)
    THEN Exchange(s, i1, i2)
    ELSE [s EXCEPT !.threw = TRUE]

\* (mutation: no check of r1 and r2 after the scan)
SwapNoNullCheck(filterFn, s, i1, i2) ==
    IF i1 = i2 THEN s
    ELSE IF filterFn = Null
    THEN IF i1 < Len(s.data) /\ i2 < Len(s.data)
         THEN Exchange(s, i1, i2)
         ELSE [s EXCEPT !.threw = TRUE]
    ELSE LET r == IF i1 > i2
                  THEN SwapScan(filterFn, s, i2, i1, 0, 0, NullIdx, NullIdx)
                  ELSE SwapScan(filterFn, s, i1, i2, 0, 0, NullIdx, NullIdx)
         IN  [r EXCEPT !.threw = FALSE]

\* (mutation: no check against this.data.length without a filter)
SwapNoBoundsCheck(filterFn, s, i1, i2) ==
    IF i1 = i2 THEN s
    ELSE IF filterFn = Null
    THEN Exchange(s, i1, i2)
    ELSE IF i1 > i2
         THEN SwapScan(filterFn, s, i2, i1, 0, 0, NullIdx, NullIdx)
         ELSE SwapScan(filterFn, s, i1, i2, 0, 0, NullIdx, NullIdx)

\* (mutation: no early return for i1 === i2)
SwapAlwaysChecked(filterFn, s, i1, i2) ==
    IF filterFn = Null
    THEN IF i1 < Len(s.data) /\ i2 < Len(s.data)
         THEN Exchange(s, i1, i2)
         ELSE [s EXCEPT !.threw = TRUE]
    ELSE IF i1 > i2
         THEN SwapScan(filterFn, s, i2, i1, 0, 0, NullIdx, NullIdx)
         ELSE SwapScan(filterFn, s, i1, i2, 0, 0, NullIdx, NullIdx)

\* (mutation: without a filter the exchange is made before the indices are
\* checked)
SwapExchangeBeforeCheck(filterFn, s, i1, i2) ==
    IF i1 = i2 THEN s
    ELSE IF filterFn = Null
    THEN IF i1 < Len(s.data) /\ i2 < Len(s.data)
         THEN Exchange(s, i1, i2)
         ELSE [Exchange(s, i1, i2) EXCEPT !.threw = TRUE]
    ELSE IF i1 > i2
         THEN SwapScan(filterFn, s, i2, i1, 0, 0, NullIdx, NullIdx)
         ELSE SwapScan(filterFn, s, i1, i2, 0, 0, NullIdx, NullIdx)

\* DataModifier.swap(i1, i2) on the array s = [data, neg]; threw: 'Invalid index'.
Swap(filterFn, s, i1, i2) ==
    IF i1 = i2 THEN s
    ELSE IF filterFn = Null
    THEN IF i1 < Len(s.data) /\ i2 < Len(s.data)
         THEN Exchange(s, i1, i2)
         ELSE [s EXCEPT !.threw = TRUE]
    ELSE IF i1 > i2
         THEN SwapScan(filterFn, s, i2, i1, 0, 0, NullIdx, NullIdx)
         ELSE SwapScan(filterFn, s, i1, i2, 0, 0, NullIdx, NullIdx)

\* The array r left by a swap(i1, i2) that median() made on s while working on
\* [left, right], with the call added to calls: its arguments, the range,
\* size() at the time, and the array and outcome it left.
LogSwap(filterFn, r, s, i1, i2, left, right) ==
    [r EXCEPT !.calls = Append(s.calls,
                               [i1 |-> i1, i2 |-> i2, left |-> left, right |-> right,
                                size |-> Size(filterFn, s.data),
                                data |-> r.data, neg |-> r.neg, threw |-> r.threw])]

\* modifier.swap inside median(): nothing more runs once a swap has thrown.
SwapIn(filterFn, s, i1, i2, left, right) ==
    IF s.threw THEN s
    ELSE LogSwap(filterFn, Swap(filterFn, s, i1, i2), s, i1, i2, left, right)

\* The for loop of partition: for (let i = left; i <= right; i += 1).
RECURSIVE PartitionLoop(_, _, _, _, _, _, _, _)
PartitionLoop(fn, filterFn, s, pivotValue, i, left, right, realPivotIdx) ==
    IF i > right \/ s.threw THEN [s |-> s, idx |-> realPivotIdx]
    ELSE IF Less(Get(fn, filterFn, s.data, s.neg, i), pivotValue)
         THEN PartitionLoop(fn, filterFn,
                            SwapIn(filterFn, s, i, realPivotIdx, left, right),
                            pivotValue, i + 1, left, right, realPivotIdx + 1)
         ELSE PartitionLoop(fn, filterFn, s, pivotValue, i + 1, left, right, realPivotIdx)

\* The end of partition: swap(right, realPivotIdx); return realPivotIdx.
PartitionEnd(filterFn, p, left, right) ==
    [s |-> SwapIn(filterFn, p.s, right, p.idx, left, right), idx |-> p.idx]

\* partition(left, right, pivotIdx) of median(): pivotValue is read before
\* swap(pivotIdx, right).
Partition(fn, filterFn, s, left, right, pivotIdx) ==
    PartitionEnd(filterFn,
                 PartitionLoop(fn, filterFn,
                               SwapIn(filterFn, s, pivotIdx, right, left, right),
                               Get(fn, filterFn, s.data, s.neg, pivotIdx),
                               left, left, right, left),
                 left, right)

\* quickSelect(n) of median(): the while (true) loop from [left, right]; fuel
\* counts the iterations left before the loop is given up as not terminating.
\* QuickSelectStep is the rest of an iteration once partition has returned p.
RECURSIVE QuickSelectLoop(_, _, _, _, _, _, _)
QuickSelectStep(fn, filterFn, p, n, left, right, fuel) ==
    IF p.s.threw THEN [s |-> p.s, val |-> Undefined, ended |-> TRUE]
    ELSE IF n = p.idx
    THEN [s |-> p.s, val |-> Get(fn, filterFn, p.s.data, p.s.neg, n), ended |-> TRUE]
    ELSE IF n < p.idx
    THEN QuickSelectLoop(fn, filterFn, p.s, n, left, p.idx - 1, fuel - 1)
    ELSE QuickSelectLoop(fn, filterFn, p.s, n, p.idx + 1, right, fuel - 1)

QuickSelectLoop(fn, filterFn, s, n, left, right, fuel) ==
    IF s.threw THEN [s |-> s, val |-> Undefined, ended |-> TRUE]
    ELSE IF fuel = 0 THEN [s |-> s, val |-> Undefined, ended |-> FALSE]
    ELSE IF left = right
    THEN [s |-> s, val |-> Get(fn, filterFn, s.data, s.neg, left), ended |-> TRUE]
    ELSE QuickSelectStep(fn, filterFn,
                         Partition(fn, filterFn, s, left, right, (left + right) \div 2),
                         n, left, right, fuel)

\* (mutation: the search starts with right = size(), one past the last index)
QuickSelectFromSize(fn, filterFn, s, n) ==
    QuickSelectLoop(fn, filterFn, s, n, 0, Size(filterFn, s.data), Len(s.data) + 1)

\* quickSelect(n): left = 0, right = this.size() - 1.
QuickSelect(fn, filterFn, s, n) ==
    QuickSelectLoop(fn, filterFn, s, n, 0, Size(filterFn, s.data) - 1, Len(s.data) + 1)

\* (mutation: the even case returns the upper middle value, not the average)
MedianUpperOnly(fn, filterFn, s) ==
    IF Size(filterFn, s.data) = 0
    THEN [s |-> s, val |-> NaN, ended |-> TRUE]
    ELSE QuickSelect(fn, filterFn, s, Size(filterFn, s.data) \div 2)

\* The even case of median(): m2 = quickSelect(halfIdx - 1); (m2 + m) / 2.
MedianEven(m, m2) == [s |-> m2.s, val |-> Half(m2.val, m.val), ended |-> m2.ended]

\* median() once m = quickSelect(halfIdx) has returned: if (this.size() % 2 == 0).
MedianRest(fn, filterFn, m, halfIdx) ==
    IF m.s.threw \/ ~m.ended THEN m
    ELSE IF Size(filterFn, m.s.data) % 2 = 0
    THEN MedianEven(m, QuickSelect(fn, filterFn, m.s, halfIdx - 1))
    ELSE m

\* FunzoList.median(): the value returned, the array afterwards, whether a
\* swap threw and whether both quickSelect loops ended.
Median(fn, filterFn, s) ==
    IF Size(filterFn, s.data) = 0
    THEN [s |-> s, val |-> NaN, ended |-> TRUE]
    ELSE MedianRest(fn, filterFn,
                    QuickSelect(fn, filterFn, s, Size(filterFn, s.data) \div 2),
                    Size(filterFn, s.data) \div 2)

\* (mutation: the random index is drawn from the whole array, from 0)
RandomIntFromZero(k, den, fromNum, toNum) == (k * (toNum - fromNum)) \div den

\* randomInt(fromNum, toNum) of sample(), with Math.random() = k / den.
RandomInt(k, den, fromNum, toNum) == (k * (toNum - fromNum)) \div den + fromNum

\* One pass of the loop body of sample(): slot i and slot randIdx exchanged
\* through tmp.
SampleExchange(data, i, randIdx) ==
    [data EXCEPT ![i + 1] = data[randIdx + 1], ![randIdx + 1] = data[i + 1]]

\* The loop of sample(size) from step i: every array it can leave behind, over
\* the outcomes k / (length - i), 0 <= k < length - i, of Math.random(), each
\* with the exchanges (i, randIdx) made so far.
RECURSIVE SampleLoop(_, _, _, _)
SampleLoop(data, i, size, steps) ==
    IF i >= size THEN {[data |-> data, steps |-> steps]}
    ELSE UNION { SampleLoop(
                   SampleExchange(data, i, RandomInt(k, Len(data) - i, i, Len(data))),
                   i + 1, size,
                   Append(steps, [i |-> i,
                                  randIdx |-> RandomInt(k, Len(data) - i, i, Len(data))])) :
                 k \in 0..(Len(data) - i - 1) }

\* (mutation: a sample of size 0 is let through)
SampleThrowsBelowZero(data, size) == size < 0 \/ size > Len(data)

\* FunzoData.sample(size): whether it throws.
SampleThrows(data, size) == size <= 0 \/ size > Len(data)

\* The functions callers hand to probs(): none (the default x => x) and
\* x => x % 2 === 0 ? 'even' : 'odd'.  Key is the property name probs[item]
\* is stored under: String(item).
KeyFns == {"id", "parity"}
Key(key, v) ==
    CASE key = "id" -> JsString(v)
      [] key = "parity" -> IF Test("even", v) THEN << "e", "v", "e", "n" >>
                           ELSE << "o", "d", "d" >>

\* The first for loop of probs(): over this.data, whatever this.filterFn is.
RECURSIVE ProbsLoop(_, _, _, _)
ProbsLoop(data, key, i, probs) ==
    IF i < Len(data)
    THEN ProbsLoop(data, key, i + 1, Increment(probs, Key(key, data[i + 1])))
    ELSE probs

\* The order of for (let p in probs): the keys that are array indices in
\* ascending numeric order, then the other keys in insertion order.
DigitVal(c) == CHOOSE x \in 0..9 : Digit(x) = c
IsIndexKey(key) ==
    /\ key # << >>
    /\ \A i \in 1..Len(key) : \E x \in 0..9 : Digit(x) = key[i]
    /\ Len(key) > 1 => key[1] # "0"
RECURSIVE ParseNat(_)
ParseNat(key) ==
    IF key = << >> THEN 0 ELSE 10 * ParseNat(Front(key)) + DigitVal(Last(key))
RECURSIVE SortByIndex(_)
SortByIndex(entries) ==
    IF entries = << >> THEN << >>
    ELSE LET m == CHOOSE i \in 1..Len(entries) :
                      \A j \in 1..Len(entries) :
                          ParseNat(entries[i].key) <= ParseNat(entries[j].key)
         IN  << entries[m] >>
                 \o SortByIndex(SubSeq(entries, 1, m - 1)
                                    \o SubSeq(entries, m + 1, Len(entries)))
ForIn(probs) ==
    SortByIndex(SelectSeq(probs, LAMBDA e : IsIndexKey(e.key)))
        \o SelectSeq(probs, LAMBDA e : ~IsIndexKey(e.key))

\* (mutation: the counts are divided by the number of keys)
ProbsAnsOverKeys(probs, length) ==
    [i \in 1..Len(ForIn(probs)) |-> Div(Num(ForIn(probs)[i].count), Num(Len(probs)))]

\* The second for loop of probs(): ans.push(probs[p] / this.data.length).
ProbsAns(probs, length) ==
    [i \in 1..Len(ForIn(probs)) |-> Div(Num(ForIn(probs)[i].count), Num(length))]

\* FunzoData.probs(key): new FunzoList((x) => x, null, ans).
Probs(data, key) ==
    [kind |-> "FunzoList",
     data |-> ProbsAns(ProbsLoop(data, key, 0, << >>), Len(data)),
     fn |-> "id", filterFn |-> Null]

\* (mutation: hasNext() moves the cursor as next() does)
FindNextMatchAlwaysUpdates(data, filterFn, internalIdx, updateInternalPointer) ==
    [ans |-> FindNextMatch(data, filterFn, internalIdx + 1).ans,
     internalIdx |-> FindNextMatch(data, filterFn, internalIdx + 1).i]

\* SkippingIterator.findNextMatch(updateInternalPointer) with the cursor at
\* internalIdx: the value returned and the cursor afterwards.
FindNextMatchFrom(data, filterFn, internalIdx, updateInternalPointer) ==
    [ans |-> FindNextMatch(data, filterFn, internalIdx + 1).ans,
     internalIdx |-> IF updateInternalPointer
                     THEN FindNextMatch(data, filterFn, internalIdx + 1).i
                     ELSE internalIdx]


(***************************************************************************)
(* The state: the backing array shared by every wrapper and view (data,    *)
(* and neg for the properties stored under negative keys), the filterFn of *)
(* the FunzoData at hand, and the call just made on it with its outcome    *)
(* (Idle once the caller has taken the outcome and can call again).        *)
(***************************************************************************)
VARIABLES data, neg, filterFn, ret

vars == << data, neg, filterFn, ret >>

Arr == [data |-> data, neg |-> neg, threw |-> FALSE, calls |-> << >>]

\* A call and its outcome; pre is the array the call was made on.
Result(op, fn, args, val, threw) ==
    [op |-> op, fn |-> fn, args |-> args, val |-> val, threw |-> threw,
     pre |-> [data |-> data, neg |-> neg]]

Idle ==
    [op |-> "idle", fn |-> "id", args |-> << >>, val |-> Undefined, threw |-> FALSE,
     pre |-> [data |-> << >>, neg |-> << >>]]

\* Funzo(data): new FunzoData(data), no filter, over an array of numbers.
Init ==
    /\ data \in UNION { [1..n -> {Num(v) : v \in Values}] : n \in 0..MaxLen }
    /\ neg = [i \in NegKeys |-> Undefined]
    /\ filterFn = Null
    /\ ret = Idle

\* filter(fn): go on with the FunzoData it returns (same array).
FilterCall(p) ==
    /\ ret.op = "idle"
    /\ Len(filterFn) < MaxFilters
    /\ filterFn' = ComposeFilter(filterFn, p)
    /\ ret' = Result("filter", "id", << >>, Undefined, FALSE)
    /\ UNCHANGED << data, neg >>

\* The first filter(fn) on the wrapper made by Funzo(data).
FirstFilterCall(p) ==
    /\ filterFn = Null
    /\ FilterCall(p)

\* map(fn).size()
SizeCall(fn) ==
    /\ ret.op = "idle"
    /\ ret' = Result("size", fn, << >>, Size(filterFn, data), FALSE)
    /\ UNCHANGED << data, neg, filterFn >>

\* map(fn).get(idx)
GetCall(fn, idx) ==
    /\ ret.op = "idle"
    /\ ret' = Result("get", fn, << idx >>, Get(fn, filterFn, data, neg, idx), FALSE)
    /\ UNCHANGED << data, neg, filterFn >>

\* (mutation: toArray() drops the rejected elements from the backing array)
ToArrayCallInPlace(fn) ==
    /\ ret.op = "idle"
    /\ ret' = Result("toArray", fn, << >>,
                     [arr |-> ToArray(fn, filterFn, data), evals |-> << >>], FALSE)
    /\ data' = ToArray("id", filterFn, data)
    /\ UNCHANGED << neg, filterFn >>

\* map(fn).toArray(); val.evals lists, per backing element, the callers'
\* filter functions invoked on it.
ToArrayCall(fn) ==
    /\ ret.op = "idle"
    /\ ret' = Result("toArray", fn, << >>,
                     [arr |-> ToArray(fn, filterFn, data),
                      evals |-> IF filterFn = Null THEN << >>
                                ELSE [i \in 1..Len(data) |-> FilterTrace(filterFn, data[i])]],
                     FALSE)
    /\ UNCHANGED << data, neg, filterFn >>

\* map(fn).each(cb), cb returning false once its index argument is >= stopAt.
EachCall(fn, stopAt) ==
    /\ ret.op = "idle"
    /\ ret' = Result("each", fn, << stopAt >>, Each(fn, filterFn, data, stopAt), FALSE)
    /\ UNCHANGED << data, neg, filterFn >>

\* new DataModifier(accessor, filterFn, data).swap(i1, i2)
SwapCall(i1, i2) ==
    /\ ret.op = "idle"
    /\ LET r == Swap(filterFn, Arr, i1, i2)
       IN  /\ data' = r.data
           /\ neg' = r.neg
           /\ ret' = Result("swap", "id", << i1, i2 >>, Undefined, r.threw)
    /\ UNCHANGED filterFn

\* map(fn).median(); val.calls lists the swaps it made.
MedianCall(fn) ==
    /\ ret.op = "idle"
    /\ LET r == Median(fn, filterFn, Arr)
       IN  /\ data' = r.s.data
           /\ neg' = r.s.neg
           /\ ret' = Result("median", fn, << >>,
                            [val |-> r.val, ended |-> r.ended, calls |-> r.s.calls],
                            r.s.threw)
    /\ UNCHANGED filterFn

\* sample(size): val.data is the data of the FunzoData returned (a slice, so
\* an array of its own), val.steps the exchanges the loop made.
SampleCall(size) ==
    /\ ret.op = "idle"
    /\ IF SampleThrows(data, size)
       THEN /\ ret' = Result("sample", "id", << size >>, Undefined, TRUE)
            /\ UNCHANGED data
       ELSE \E r \in SampleLoop(data, 0, size, << >>) :
                /\ data' = r.data
                /\ ret' = Result("sample", "id", << size >>,
                                 [data |-> SubSeq(r.data, 1, size), steps |-> r.steps],
                                 FALSE)
    /\ UNCHANGED << neg, filterFn >>

\* The caller has the outcome of its call and goes on.
Return ==
    /\ ret.op # "idle"
    /\ ret' = Idle
    /\ UNCHANGED << data, neg, filterFn >>

\* The calls that reorder the backing array, on a wrapper filtered at most once.
Next ==
    \/ \E p \in FilterInputs : FirstFilterCall(p)
    \/ \E i1, i2 \in IdxInputs : SwapCall(i1, i2)
    \/ \E fn \in Accessors : MedianCall(fn)
    \/ \E size \in IdxInputs : SampleCall(size)
    \/ Return

Spec == Init /\ [][Next]_vars

\* The calls that read a view, over chains of filter() calls.
NextRead ==
    \/ \E p \in FilterInputs : FilterCall(p)
    \/ \E fn \in Accessors : SizeCall(fn)
    \/ \E fn \in Accessors, idx \in IdxInputs : GetCall(fn, idx)
    \/ \E fn \in Accessors : ToArrayCall(fn)
    \/ \E fn \in Accessors, stopAt \in 0..MaxLen : EachCall(fn, stopAt)
    \/ Return

SpecRead == Init /\ [][NextRead]_vars


\* The items of the arrays the statistics are called on: numbers, and the
\* values that are not numbers (null, a string, undefined) or not valid ones
\* (NaN).
Items == {Num(v) : v \in Values} \cup {JsNull, Str, Undefined, NaN}

\* Funzo(data) over an array of any items.
InitStat ==
    /\ data \in UNION { [1..n -> Items] : n \in 0..MaxLen }
    /\ neg = [i \in NegKeys |-> Undefined]
    /\ filterFn = Null
    /\ ret = Idle

\* The bases handed to entropy(base) and mi(base).
Bases == {2, 3}

\* map(fn).sum(); val is the value returned and the number of elements the
\* callback was called on.
SumCall(fn) ==
    /\ ret.op = "idle"
    /\ ret' = Result("sum", fn, << >>, Sum(fn, filterFn, data), FALSE)
    /\ UNCHANGED << data, neg, filterFn >>

\* map(fn).max()
MaxCall(fn) ==
    /\ ret.op = "idle"
    /\ ret' = Result("max", fn, << >>, Max(fn, filterFn, data, neg), FALSE)
    /\ UNCHANGED << data, neg, filterFn >>

\* map(fn).min()
MinCall(fn) ==
    /\ ret.op = "idle"
    /\ ret' = Result("min", fn, << >>, Min(fn, filterFn, data, neg), FALSE)
    /\ UNCHANGED << data, neg, filterFn >>

\* map(fn).mean()
MeanCall(fn) ==
    /\ ret.op = "idle"
    /\ ret' = Result("mean", fn, << >>, Mean(fn, filterFn, data), FALSE)
    /\ UNCHANGED << data, neg, filterFn >>

\* map(fn).stdev()
StdevCall(fn) ==
    /\ ret.op = "idle"
    /\ ret' = Result("stdev", fn, << >>, Stdev(fn, filterFn, data), FALSE)
    /\ UNCHANGED << data, neg, filterFn >>

\* map(fn).entropy(base)
EntropyCall(fn, base) ==
    /\ ret.op = "idle"
    /\ ret' = Result("entropy", fn, << base >>, Entropy(fn, filterFn, data, neg, base), FALSE)
    /\ UNCHANGED << data, neg, filterFn >>

\* The statistics of one view, on arrays of any items.
NextStat ==
    \/ \E p \in FilterInputs : FirstFilterCall(p)
    \/ \E fn \in Accessors : SumCall(fn)
    \/ \E fn \in Accessors : MaxCall(fn)
    \/ \E fn \in Accessors : MinCall(fn)
    \/ \E fn \in Accessors : MeanCall(fn)
    \/ \E fn \in Accessors : StdevCall(fn)
    \/ \E fn \in Accessors, base \in Bases : EntropyCall(fn, base)
    \/ \E fn \in Accessors : MedianCall(fn)
    \/ Return

SpecStat == InitStat /\ [][NextStat]_vars

\* The arguments handed to correl() and joint(): wrapArray(values) for the
\* arrays shorter than the longest backing array made of the least and the
\* greatest number, and Funzo([]) without map().
OtherInputs ==
    {[kind |-> "FunzoList", data |-> d, fn |-> "id", filterFn |-> Null] :
        d \in UNION { [1..n -> {Num(0), Num(MaxVal)}] : n \in 0..(MaxLen - 1) }}
    \cup {[kind |-> "FunzoData", data |-> << >>, fn |-> "id", filterFn |-> Null]}

\* The view map(fn) of the FunzoData at hand.
This(fn) == [kind |-> "FunzoList", data |-> data, fn |-> fn, filterFn |-> filterFn]

\* map(fn).correl(other); val.threw names the error thrown.
CorrelCall(fn, other) ==
    /\ ret.op = "idle"
    /\ LET r == Correl(fn, filterFn, data, other)
       IN  ret' = Result("correl", fn, << other >>, r, r.threw # "no")
    /\ UNCHANGED << data, neg, filterFn >>

\* map().joint(other): val is the FunzoJointData returned.
JointCall(other) ==
    /\ ret.op = "idle"
    /\ LET r == Joint(This("id"), other)
       IN  ret' = Result("joint", "id", << other >>, r, r.threw # "no")
    /\ UNCHANGED << data, neg, filterFn >>

\* mi(base) on the FunzoJointData the last call returned.
MiCall(base) ==
    /\ ret.op = "joint"
    /\ ~ret.threw
    /\ LET r == Mi([ret.val.list1 EXCEPT !.data = data], ret.val.list2, base)
       IN  ret' = Result("mi", "id", << ret.val.list2, base >>, r, r.threw # "no")
    /\ UNCHANGED << data, neg, filterFn >>

\* The statistics of two views, on arrays of numbers.
NextPair ==
    \/ \E p \in FilterInputs : FirstFilterCall(p)
    \/ \E fn \in Accessors, other \in OtherInputs : CorrelCall(fn, other)
    \/ \E other \in OtherInputs : JointCall(other)
    \/ \E base \in Bases : MiCall(base)
    \/ Return

SpecPair == Init /\ [][NextPair]_vars

\* The items of the arrays whose views are read lazily and eagerly: numbers
\* and undefined.
ViewItems == {Num(v) : v \in Values} \cup {Undefined}

\* Funzo(data) over an array of numbers and undefined items.
InitView ==
    /\ data \in UNION { [1..n -> ViewItems] : n \in 0..MaxLen }
    /\ neg = [i \in NegKeys |-> Undefined]
    /\ filterFn = Null
    /\ ret = Idle

\* probs(key): val is the FunzoList returned.
ProbsCall(key) ==
    /\ ret.op = "idle"
    /\ ret' = Result("probs", "id", << key >>, Probs(data, key), FALSE)
    /\ UNCHANGED << data, neg, filterFn >>

IterOps == {"createIterator", "hasNext", "next"}

\* An iterator in the hands of its caller: the fields internalIdx and i of
\* the SkippingIterator, the outcome of the last hasNext() (has) and of the
\* last next() (ans), the cursor left by the constructor or the last next()
\* (since), the hasNext() calls made since then, counted up to MaxRun (run),
\* and the call before with its outcome (prev).
MaxRun == 2
IterState(internalIdx, i, has, ans, since, run, prev) ==
    [internalIdx |-> internalIdx, i |-> i, has |-> has, ans |-> ans, since |-> since,
     run |-> run,
     prev |-> [op |-> prev.op, has |-> prev.val.has, ans |-> prev.val.ans,
               internalIdx |-> prev.val.internalIdx, i |-> prev.val.i,
               since |-> prev.val.since, run |-> prev.val.run]]

\* new SkippingIterator(data, filterFn)
CreateIteratorCall ==
    /\ ret.op = "idle"
    /\ ret' = Result("createIterator", "id", << >>,
                     [internalIdx |-> -1, i |-> 0, has |-> FALSE, ans |-> Undefined,
                      since |-> -1, run |-> 0,
                      prev |-> [op |-> "idle", has |-> FALSE, ans |-> Undefined,
                                internalIdx |-> -1, i |-> 0, since |-> -1, run |-> 0]],
                     FALSE)
    /\ UNCHANGED << data, neg, filterFn >>

\* iterator.hasNext()
HasNextCall ==
    /\ ret.op \in IterOps
    /\ LET m == FindNextMatchFrom(data, filterFn, ret.val.internalIdx, FALSE)
       IN  ret' = Result("hasNext", "id", << >>,
                         IterState(m.internalIdx, ret.val.i, m.ans # Undefined,
                                   ret.val.ans, ret.val.since,
                                   IF ret.val.run < MaxRun THEN ret.val.run + 1 ELSE MaxRun,
                                   ret),
                         FALSE)
    /\ UNCHANGED << data, neg, filterFn >>

\* iterator.next(), for as long as the cursor is inside the array.
NextCall ==
    /\ ret.op \in IterOps
    /\ ret.val.internalIdx < Len(data)
    /\ LET m == FindNextMatchFrom(data, filterFn, ret.val.internalIdx, TRUE)
       IN  ret' = Result("next", "id", << >>,
                         IterState(m.internalIdx,
                                   IF m.ans # Undefined THEN ret.val.i + 1 ELSE ret.val.i,
                                   ret.val.has, m.ans, m.internalIdx, 0, ret),
                         FALSE)
    /\ UNCHANGED << data, neg, filterFn >>

\* The calls that read a view lazily and eagerly, on a wrapper filtered at
\* most once over an array that may hold undefined items.
NextView ==
    \/ \E p \in FilterInputs : FirstFilterCall(p)
    \/ \E fn \in Accessors : SizeCall(fn)
    \/ \E fn \in Accessors, idx \in IdxInputs : GetCall(fn, idx)
    \/ \E fn \in Accessors : ToArrayCall(fn)
    \/ \E fn \in Accessors, stopAt \in 0..MaxLen : EachCall(fn, stopAt)
    \/ \E key \in KeyFns : ProbsCall(key)
    \/ CreateIteratorCall
    \/ HasNextCall
    \/ NextCall
    \/ Return

SpecView == InitView /\ [][NextView]_vars

\* numerize().toArray()
NumerizeCall ==
    /\ ret.op = "idle"
    /\ ret' = Result("numerize", "numerize", << >>, ToArray("numerize", filterFn, data), FALSE)
    /\ UNCHANGED << data, neg, filterFn >>

\* Every operation of a wrapper and its views, on an array of numbers and
\* with indices from 0 for swap.
NextFrame ==
    \/ \E p \in FilterInputs : FirstFilterCall(p)
    \/ \E fn \in Accessors : SizeCall(fn)
    \/ \E fn \in Accessors, idx \in IdxInputs : GetCall(fn, idx)
    \/ \E fn \in Accessors : ToArrayCall(fn)
    \/ \E fn \in Accessors, stopAt \in 0..MaxLen : EachCall(fn, stopAt)
    \/ \E fn \in Accessors : SumCall(fn)
    \/ \E fn \in Accessors : MaxCall(fn)
    \/ \E fn \in Accessors : MinCall(fn)
    \/ \E fn \in Accessors : MeanCall(fn)
    \/ \E fn \in Accessors : StdevCall(fn)
    \/ \E fn \in Accessors, base \in Bases : EntropyCall(fn, base)
    \/ \E fn \in Accessors, other \in OtherInputs : CorrelCall(fn, other)
    \/ \E other \in OtherInputs : JointCall(other)
    \/ \E base \in Bases : MiCall(base)
    \/ \E key \in KeyFns : ProbsCall(key)
    \/ NumerizeCall
    \/ \E i1, i2 \in 0..MaxLen : SwapCall(i1, i2)
    \/ \E fn \in Accessors : MedianCall(fn)
    \/ \E size \in IdxInputs : SampleCall(size)
    \/ Return

SpecFrame == Init /\ [][NextFrame]_vars


(***************************************************************************)
(* Reference notions the properties are stated with: the logical view is   *)
(* the backing elements every filter function accepts, in physical order.  *)
(***************************************************************************)
Holds(f, v) == \A k \in 1..Len(f) : \A t \in f[k] : Test(t, v)
LogicalItems(f, d) == SelectSeq(d, LAMBDA v : Holds(f, v))
Project(fn, items) == [i \in 1..Len(items) |-> Access(fn, items[i])]
AllNumbers(V) == \A i \in 1..Len(V) : IsNum(V[i])

\* The position in d (from 1) of the logical element k (from 0).
PhysPos(f, d, k) ==
    CHOOSE p \in 1..Len(d) :
        /\ Holds(f, d[p])
        /\ Cardinality({q \in 1..(p - 1) : Holds(f, d[q])}) = k

\* The order statistic of rank k (from 0) of the numbers V.
OrderStat(V, k) ==
    CHOOSE v \in {V[i] : i \in 1..Len(V)} :
        /\ Cardinality({i \in 1..Len(V) : Less(V[i], v)}) <= k
        /\ k < Cardinality({i \in 1..Len(V) : ~Less(v, V[i])})

IsTrueMedian(V, m) ==
    IF Len(V) % 2 = 1
    THEN m = OrderStat(V, Len(V) \div 2)
    ELSE /\ IsNum(m)
         /\ 2 * m.n = (OrderStat(V, Len(V) \div 2 - 1).n + OrderStat(V, Len(V) \div 2).n) * m.d

Occurrences(d, v) == Cardinality({i \in 1..Len(d) : d[i] = v})
SameContents(d, e) ==
    /\ Len(d) = Len(e)
    /\ \A i \in 1..Len(d) : Occurrences(d, d[i]) = Occurrences(e, d[i])

PreArr == [data |-> ret.pre.data, neg |-> ret.pre.neg, threw |-> FALSE, calls |-> << >>]
PreLogical == LogicalItems(filterFn, ret.pre.data)

\* C1: for a non-empty logical view of numbers, with or without a filter and
\* with repeated values, median() returns the order statistic of rank
\* floor(size/2) when the size is odd and the average of those of ranks
\* size/2 - 1 and size/2 when it is even.
MedianIsTrueMedian ==
    ret.op = "median" =>
        LET V == Project(ret.fn, PreLogical)
        IN  (Len(V) > 0 /\ AllNumbers(V)) =>
                /\ ~ret.threw
                /\ ret.val.ended
                /\ IsTrueMedian(V, ret.val.val)

\* A median of a filtered view of even size with two different middle values,
\* which reordered the backing array.
MedianWitness ==
    /\ ret.op = "median"
    /\ filterFn # Null
    /\ Len(PreLogical) = 2
    /\ Len(PreLogical) < Len(data)
    /\ data # ret.pre.data
    /\ ret.val.val.d = 2

\* C2: size() is the number of backing elements the filter accepts, and
\* get(i), 0 <= i < size(), is the accessor applied to the i-th accepted
\* element in physical order; without a filter that is accessor(D[i]) and the
\* length of D.
SizeAndGetAreLogical ==
    LET L == LogicalItems(filterFn, data)
    IN  /\ ret.op = "size" => ret.val = Len(L)
        /\ (ret.op = "get" /\ 0 <= ret.args[1] /\ ret.args[1] < Len(L)) =>
               ret.val = Access(ret.fn, L[ret.args[1] + 1])
        /\ (ret.op = "get" /\ filterFn = Null /\ 0 <= ret.args[1] /\ ret.args[1] < Len(data)) =>
               ret.val = Access(ret.fn, data[ret.args[1] + 1])

\* get(i) under a filter where the backing element at position i is rejected.
GetWitness ==
    /\ ret.op = "get"
    /\ ret.fn = "neg"
    /\ filterFn # Null
    /\ 0 < ret.args[1]
    /\ ret.args[1] < Len(LogicalItems(filterFn, data))
    /\ ~Holds(filterFn, data[ret.args[1] + 1])

\* C3: under a filter, swap(i1, i2) with two distinct logical indices below the
\* logical size exchanges exactly the two backing slots holding the i1-th and
\* i2-th accepted elements, so the logical sequence is the old one with these
\* two positions exchanged; swap(i2, i1) gives the same array.
SwapExchangesLogical ==
    (/\ ret.op = "swap"
     /\ filterFn # Null
     /\ ret.args[1] # ret.args[2]
     /\ \A k \in 1..2 : 0 <= ret.args[k] /\ ret.args[k] < Len(PreLogical)) =>
        LET i1 == ret.args[1]
            i2 == ret.args[2]
            p1 == PhysPos(filterFn, ret.pre.data, i1)
            p2 == PhysPos(filterFn, ret.pre.data, i2)
        IN  /\ ~ret.threw
            /\ data = [ret.pre.data EXCEPT ![p1] = ret.pre.data[p2],
                                           ![p2] = ret.pre.data[p1]]
            /\ neg = ret.pre.neg
            /\ LogicalItems(filterFn, data) =
                   [PreLogical EXCEPT ![i1 + 1] = PreLogical[i2 + 1],
                                      ![i2 + 1] = PreLogical[i1 + 1]]
            /\ Swap(filterFn, PreArr, i2, i1).data = data

\* A swap under a filter, called with i1 > i2, of two different items whose
\* physical positions are not their logical ones.
SwapWitness ==
    /\ ret.op = "swap"
    /\ ~ret.threw
    /\ filterFn # Null
    /\ ret.args[1] > ret.args[2]
    /\ ret.args[2] >= 0
    /\ data # ret.pre.data
    /\ Len(data) > 0
    /\ ~Holds(filterFn, data[1])

\* C4: the view of filter(p1).filter(p2) has the logical sequence of the view
\* built with the one function p1 AND p2 (same size, same get(i), same
\* toArray()), and a later function of the chain is invoked on an element only
\* when every earlier one accepted it.
ChainedFiltersAreConjunction ==
    Len(filterFn) >= 2 =>
        LET single == << UNION {filterFn[k] : k \in 1..Len(filterFn)} >>
        IN  /\ ret.op = "size" => ret.val = Size(single, data)
            /\ ret.op = "get" => ret.val = Get(ret.fn, single, data, neg, ret.args[1])
            /\ ret.op = "toArray" =>
                   /\ ret.val.arr = ToArray(ret.fn, single, data)
                   /\ ret.val.arr = Project(ret.fn, LogicalItems(filterFn, data))
                   /\ \A i \in 1..Len(data) :
                          LET calls == ret.val.evals[i]
                          IN  /\ Len(calls) >= 1
                              /\ \A k \in 1..Len(calls) :
                                     /\ calls[k] = filterFn[k]
                                     /\ \A j \in 1..(k - 1) : CallFilter(filterFn[j], data[i])

\* toArray() over two different filters, with an element only the first accepts
\* and an element the first rejects.
ChainWitness ==
    /\ ret.op = "toArray"
    /\ Len(filterFn) = 2
    /\ filterFn[1] # filterFn[2]
    /\ \E i \in 1..Len(data) : Len(ret.val.evals[i]) = 1
    /\ \E i \in 1..Len(data) :
           CallFilter(filterFn[1], data[i]) /\ ~CallFilter(filterFn[2], data[i])
    /\ Len(ret.val.arr) > 0

\* C5: after any calls of swap, median() and sample(), failing or not and with
\* any integer arguments, the backing array has the length and the contents,
\* up to order, it had before.
BackingIsPermutation ==
    ret.op \in {"swap", "median", "sample"} => SameContents(data, ret.pre.data)

SwapSameIndexIsNoop ==
    (ret.op = "swap" /\ ret.args[1] = ret.args[2]) =>
        /\ ~ret.threw
        /\ data = ret.pre.data
        /\ neg = ret.pre.neg

\* swap(i, i) under a filter on an empty array (so i is out of range).
SwapSameWitness ==
    /\ ret.op = "swap"
    /\ ret.args[1] = ret.args[2]
    /\ ret.args[1] > 0
    /\ filterFn # Null
    /\ Len(data) = 0

EachStopsAtFalse ==
    ret.op = "each" =>
        LET L == LogicalItems(filterFn, data)
            n == IF Len(L) <= ret.args[1] THEN Len(L) ELSE ret.args[1] + 1
        IN  /\ Len(ret.val) = n
            /\ \A j \in 1..n :
                   /\ ret.val[j].i = j - 1
                   /\ ret.val[j].item = L[j]
                   /\ ret.val[j].v = Access(ret.fn, L[j])

\* each() on a filtered view stopped by its callback with elements left.
EachWitness ==
    /\ ret.op = "each"
    /\ filterFn # Null
    /\ ret.fn = "neg"
    /\ ret.args[1] = 0
    /\ Len(ret.val) = 1
    /\ Len(LogicalItems(filterFn, data)) = 2
    /\ Len(LogicalItems(filterFn, data)) < Len(data)
    /\ ~Holds(filterFn, data[1])

\* C10: on every backing array of numbers, median() of the view whose filter
\* accepts every element equals median() of the view without a filter.
PassAllMedianEqualsUnfiltered ==
    (/\ ret.op = "median"
     /\ filterFn = << {"all"} >>
     /\ AllNumbers(ret.pre.data)) =>
        ret.val.val = Median(ret.fn, Null, PreArr).val

\* A median through the pass-all filter that reordered an array of three.
PassAllWitness ==
    /\ ret.op = "median"
    /\ filterFn = << {"all"} >>
    /\ AllNumbers(ret.pre.data)
    /\ Len(data) >= 3
    /\ data # ret.pre.data
    /\ ret.fn = "neg"

\* Reference notions for the statistics: the sum of a sequence of values, its
\* greatest and least number, and the Pearson coefficient of two sequences of
\* numbers of one length.
RECURSIVE SeqSum(_)
SeqSum(V) == IF Len(V) = 0 THEN Num(0) ELSE Add(SeqSum(Front(V)), Last(V))
Greatest(V) == CHOOSE v \in {V[i] : i \in 1..Len(V)} : \A i \in 1..Len(V) : ~Less(v, V[i])
Least(V) == CHOOSE v \in {V[i] : i \in 1..Len(V)} : \A i \in 1..Len(V) : ~Less(V[i], v)
SeqMean(V) == Div(SeqSum(V), Num(Len(V)))
Pearson(X, Y) ==
    LET dx == [i \in 1..Len(X) |-> Sub(X[i], SeqMean(X))]
        dy == [i \in 1..Len(Y) |-> Sub(Y[i], SeqMean(Y))]
    IN  Div(SeqSum([i \in 1..Len(X) |-> Mul(dx[i], dy[i])]),
            Sqrt(Mul(SeqSum([i \in 1..Len(X) |-> Mul(dx[i], dx[i])]),
                     SeqSum([i \in 1..Len(Y) |-> Mul(dy[i], dy[i])]))))
Min2(a, b) == IF a < b THEN a ELSE b
LogicalValues == Project(ret.fn, LogicalItems(filterFn, data))

\* C11: on an empty logical view (an empty array or a filter rejecting every
\* element), with any accessor, max(), min(), median(), mean() and stdev()
\* return NaN and do not throw.
EmptyViewStatsAreNaN ==
    (/\ ret.op \in {"max", "min", "median", "mean", "stdev"}
     /\ Len(PreLogical) = 0) =>
        /\ ~ret.threw
        /\ (IF ret.op = "median" THEN ret.val.val ELSE ret.val) = NaN

\* C12: sum() is 0 on an empty view, the arithmetic sum when every logical
\* value is a number, and NaN when some logical value is not of type number,
\* wherever it is; the callback is then called on no element after the first
\* such value.
SumIsTotalOrNaN ==
    ret.op = "sum" =>
        LET V == LogicalValues
            bad == {i \in 1..Len(V) : ~TypeofNumber(V[i])}
        IN  /\ Len(V) = 0 => ret.val.val = Num(0)
            /\ AllNumbers(V) => ret.val.val = SeqSum(V)
            /\ bad # {} =>
                   /\ ret.val.val = NaN
                   /\ ret.val.calls = CHOOSE i \in bad : \A j \in bad : i <= j

\* C13: on a non-empty view max() is the greatest and min() the least logical
\* value when all are numbers, and both are NaN when some logical value is not
\* of type number, at position 0 or anywhere else.
ExtremesAreGreatestLeastOrNaN ==
    (ret.op \in {"max", "min"} /\ Len(LogicalValues) > 0) =>
        /\ AllNumbers(LogicalValues) =>
               ret.val = (IF ret.op = "max" THEN Greatest(LogicalValues)
                                            ELSE Least(LogicalValues))
        /\ (\E i \in 1..Len(LogicalValues) : ~TypeofNumber(LogicalValues[i])) =>
               ret.val = NaN

\* C14: mean() is sum() / size() when size() > 0 and NaN otherwise, so it is
\* NaN whenever sum() is.
MeanIsSumOverSize ==
    ret.op = "mean" =>
        ret.val = (IF Size(filterFn, data) > 0
                   THEN Div(Sum(ret.fn, filterFn, data).val, Num(Size(filterFn, data)))
                   ELSE NaN)

\* C15: correl(other) is NaN whenever the two views have different logical
\* sizes.
CorrelDifferentSizesIsNaN ==
    (/\ ret.op = "correl"
     /\ ret.args[1].kind = "FunzoList"
     /\ Len(LogicalValues) # Len(ret.args[1].data)) =>
        /\ ~ret.threw
        /\ ret.val.val = NaN

CorrelUnprojectedIsUsageError ==
    (ret.op = "correl" /\ ret.args[1].kind = "FunzoData") =>
        /\ ret.threw
        /\ ret.val.threw = "Please apply map() to the argument"

\* C18: joint(arg) with an unprojected FunzoData throws at that call, and no
\* error is left to the later mi().
JointRejectsUnprojected ==
    /\ (ret.op = "joint" /\ ret.args[1].kind = "FunzoData") => ret.threw
    /\ ret.op = "mi" => ~ret.threw

\* C19: entropy(base) of valid probabilities (numbers from 0 to 1), zeros
\* among them, is a number: a value 0 adds 0 to the sum.
EntropyZeroContributesZero ==
    (/\ ret.op = "entropy"
     /\ AllNumbers(LogicalValues)
     /\ \A i \in 1..Len(LogicalValues) :
            ~Less(LogicalValues[i], Num(0)) /\ ~Less(Num(1), LogicalValues[i])) =>
        /\ ret.val.k = "number"
        /\ ret.val.terms = SelectSeq(LogicalValues, LAMBDA v : v \notin {Num(0), Num(1)})

\* C20: mi(base) visits min(sizeA, sizeB) positional pairs (total) and weights
\* every distinct pair by countPair / total, so the weights sum to 1 whenever
\* total > 0.
MiWeightsSumToOne ==
    (ret.op = "mi" /\ ~ret.threw) =>
        /\ ret.val.total = Min2(Len(LogicalValues), Len(ret.args[1].data))
        /\ ret.val.total > 0 =>
               SeqSum([i \in 1..Len(ret.val.terms) |-> ret.val.terms[i].w]) = Num(1)

\* C21: sample(size) throws when size <= 0 or size > the length of the backing
\* array, and returns for every size from 1 to that length.
SampleThrowsOutsideRange ==
    ret.op = "sample" =>
        (ret.threw <=> (ret.args[1] <= 0 \/ ret.args[1] > Len(ret.pre.data)))

SampleRangeWitness ==
    /\ ret.op = "sample"
    /\ ~ret.threw
    /\ ret.args[1] = Len(ret.pre.data)
    /\ ret.args[1] = MaxLen

\* The array after the exchanges of steps, made one after the other on d.
RECURSIVE ApplySteps(_, _)
ApplySteps(d, steps) ==
    IF steps = << >> THEN d
    ELSE ApplySteps([p \in 1..Len(d) |->
                        IF p = Head(steps).i + 1 THEN d[Head(steps).randIdx + 1]
                        ELSE IF p = Head(steps).randIdx + 1 THEN d[Head(steps).i + 1]
                        ELSE d[p]],
                    Tail(steps))

\* C22: a sample(size) that returns has made, for i = 0 .. size - 1 in this
\* order, one exchange of slot i with a slot j, i <= j <= length - 1, and has
\* written no other slot; the FunzoData it returns holds the first size slots
\* of the array after these exchanges, in order.
SampleIsPrefixShuffle ==
    (ret.op = "sample" /\ ~ret.threw) =>
        /\ Len(ret.val.steps) = ret.args[1]
        /\ \A n \in 1..Len(ret.val.steps) :
               /\ ret.val.steps[n].i = n - 1
               /\ ret.val.steps[n].randIdx \in (n - 1)..(Len(ret.pre.data) - 1)
        /\ data = ApplySteps(ret.pre.data, ret.val.steps)
        /\ neg = ret.pre.neg
        /\ ret.val.data = [p \in 1..ret.args[1] |-> data[p]]

SampleShuffleWitness ==
    /\ ret.op = "sample"
    /\ ~ret.threw
    /\ ret.args[1] = 2
    /\ Len(ret.pre.data) = MaxLen
    /\ ret.val.steps[1].randIdx = Len(ret.pre.data) - 1
    /\ ret.val.steps[2].randIdx = 1
    /\ data # ret.pre.data

\* The keys of the items d under the key function key, and the items of each.
KeysOf(key, d) == {Key(key, d[i]) : i \in 1..Len(d)}
KeyCount(key, d, k) == Cardinality({i \in 1..Len(d) : Key(key, d[i]) = k})

\* P holds, for every key of d, one value count / Len(d), and nothing else.
IsFrequencies(P, key, d) ==
    /\ Len(P) = Cardinality(KeysOf(key, d))
    /\ \A k \in KeysOf(key, d) :
           Cardinality({i \in 1..Len(P) : P[i] = Div(Num(KeyCount(key, d, k)), Num(Len(d)))})
               = Cardinality({j \in KeysOf(key, d) : KeyCount(key, d, j) = KeyCount(key, d, k)})

NextFrom(since) ==
    IF \E p \in (since + 2)..Len(data) : Holds(filterFn, data[p])
    THEN data[CHOOSE p \in (since + 2)..Len(data) :
                  /\ Holds(filterFn, data[p])
                  /\ \A q \in (since + 2)..(p - 1) : ~Holds(filterFn, data[q])]
    ELSE Undefined

\* C24: hasNext() leaves the cursor of a SkippingIterator where it is and,
\* called again without a next() in between, answers the same; the next()
\* after any number of hasNext() calls returns the element it would have
\* returned after one, and after a hasNext() that answered true it returns an
\* element that satisfies the predicate.
HasNextIsIdempotent ==
    /\ ret.op = "hasNext" =>
           /\ ret.val.internalIdx = ret.val.prev.internalIdx
           /\ ret.val.i = ret.val.prev.i
           /\ ret.val.prev.op = "hasNext" => ret.val.has = ret.val.prev.has
    /\ ret.op = "next" =>
           /\ ret.val.ans = NextFrom(ret.val.prev.since)
           /\ (ret.val.prev.op = "hasNext" /\ ret.val.prev.has) =>
                  ret.val.ans # Undefined /\ Holds(filterFn, ret.val.ans)

HasNextWitness ==
    /\ ret.op = "next"
    /\ filterFn # Null
    /\ ret.val.prev.op = "hasNext"
    /\ ret.val.prev.run = MaxRun
    /\ ret.val.prev.has
    /\ ret.val.i = 2
    /\ ret.val.internalIdx > ret.val.prev.since + 1

\* C25: on a FunzoData with a filter, probs() computes the frequencies from
\* the elements that satisfy the filter only.
ProbsCountsFilteredOnly ==
    (ret.op = "probs" /\ filterFn # Null) =>
        IsFrequencies(ret.val.data, ret.args[1], LogicalItems(filterFn, data))

\* C26: a swap that raises 'Invalid index' and a sample that raises its
\* invalid-size error leave the backing array exactly as it was before the
\* call: nothing is written before the failure.
FailedCallLeavesArray ==
    (ret.op \in {"swap", "sample"} /\ ret.threw) =>
        data = ret.pre.data /\ neg = ret.pre.neg

FailedSwapWitness ==
    /\ ret.op = "swap"
    /\ ret.threw
    /\ filterFn # Null
    /\ Len(data) = MaxLen
    /\ ret.args[1] = 0
    /\ Len(PreLogical) = 2
    /\ ret.args[2] = 2
    /\ data = ret.pre.data

\* d and e differ at most by a rearrangement of the elements the predicate
\* accepts, among the positions that hold them.
SameFrame(d, e) ==
    /\ Len(d) = Len(e)
    /\ \A p \in 1..Len(d) :
           /\ ~Holds(filterFn, d[p]) => e[p] = d[p]
           /\ Holds(filterFn, d[p]) <=> Holds(filterFn, e[p])

\* C27: under a filter, a swap and each swap made by median() leave every
\* element the predicate rejects at its position and the set of positions
\* holding accepted elements as it was, so size() is the same after as before.
FilteredSwapsKeepFrame ==
    (ret.op \in {"swap", "median"} /\ filterFn # Null) =>
        /\ SameFrame(ret.pre.data, data)
        /\ ret.op = "median" =>
               \A n \in 1..Len(ret.val.calls) : SameFrame(ret.pre.data, ret.val.calls[n].data)
        /\ Size(filterFn, data) = Size(filterFn, ret.pre.data)

\* C28: on a non-empty logical view of numbers, with repeated values and
\* behind a filter as well, median() comes to an end, every swap it makes has
\* both indices in the range [left, right] it is working on, that range lies
\* in [0, size() - 1], and no swap raises 'Invalid index'.
MedianSwapsStayInRange ==
    (/\ ret.op = "median"
     /\ PreLogical # << >>
     /\ AllNumbers(Project(ret.fn, PreLogical))) =>
        /\ ret.val.ended
        /\ ~ret.threw
        /\ \A n \in 1..Len(ret.val.calls) :
               /\ 0 <= ret.val.calls[n].left
               /\ ret.val.calls[n].left <= ret.val.calls[n].right
               /\ ret.val.calls[n].right <= ret.val.calls[n].size - 1
               /\ ret.val.calls[n].i1 \in ret.val.calls[n].left..ret.val.calls[n].right
               /\ ret.val.calls[n].i2 \in ret.val.calls[n].left..ret.val.calls[n].right
               /\ ~ret.val.calls[n].threw

MedianRangeWitness ==
    /\ ret.op = "median"
    /\ filterFn # Null
    /\ Len(PreLogical) = 2
    /\ Len(ret.pre.data) = MaxLen
    /\ AllNumbers(Project(ret.fn, PreLogical))
    /\ PreLogical[1] = PreLogical[2]
    /\ Len(ret.val.calls) > 3

\* C29: on every backing array, with or without a filter and also with
\* undefined items, the lazy and the eager paths agree: size() is the number
\* of calls each() makes of a callback that never stops it and the length of
\* toArray(), and the i-th value each() passes is get(i) and toArray()[i].
LazyAndEagerAgree ==
    /\ ret.op = "size" =>
           /\ ret.val = Len(Each(ret.fn, filterFn, data, MaxLen))
           /\ ret.val = Len(ToArray(ret.fn, filterFn, data))
    /\ (ret.op = "each" /\ ret.args[1] = MaxLen) =>
           /\ Len(ret.val) = Len(ToArray(ret.fn, filterFn, data))
           /\ \A n \in 1..Len(ret.val) :
                  /\ ret.val[n].v = Get(ret.fn, filterFn, data, neg, n - 1)
                  /\ ret.val[n].v = ToArray(ret.fn, filterFn, data)[n]
    /\ ret.op = "toArray" =>
           \A n \in 1..Len(ret.val.arr) :
               ret.val.arr[n] = Get(ret.fn, filterFn, data, neg, n - 1)

\* The operations that are to read only.
ReadOnlyOps ==
    {"filter", "size", "get", "each", "toArray", "sum", "max", "min", "mean", "stdev",
     "correl", "entropy", "joint", "mi", "probs", "numerize"}

\* C30: size, get, each, toArray, sum, max, min, mean, stdev, correl,
\* entropy, joint, mi, probs, map, filter and numerize leave every element of
\* the backing array at its position; after any call that left the array
\* different, the call was median, sample or swap.
OnlyModifiersReorder ==
    /\ ret.op \in ReadOnlyOps => data = ret.pre.data /\ neg = ret.pre.neg
    /\ (ret.op # "idle" /\ data # ret.pre.data) => ret.op \in {"median", "sample", "swap"}

ReadOnlyWitness ==
    /\ ret.op = "toArray"
    /\ filterFn # Null
    /\ Len(data) = MaxLen
    /\ Len(ret.val.arr) = 1
    /\ ret.val.arr[1] # data[1]
    /\ data = ret.pre.data

====
